---- MODULE Spec2Model ----
(***************************************************************************)
(* Verification model of the MongoDB -> PostgreSQL migration tool.         *)
(*                                                                         *)
(* The module holds one state machine per component of the tool:           *)
(*   SpecOrder     DDLParser.getInsertionOrder (Kahn's topological sort)   *)
(*   SpecMigrate   MigrationEngine.migrate (both modes, error handling)    *)
(*   SpecMigrateAgain  a later migrate call on the same MigrationEngine    *)
(*   SpecInsert    PostgresManager.insertDocuments(WithMapping), reruns    *)
(*   SpecAnalyze   MongoAnalyzer.analyzeCollection / analyzeDocument       *)
(*   SpecSanitize  sanitizeIdentifier                                      *)
(* Each specification leaves the variables of the other components at      *)
(* their idle values.                                                      *)
(***************************************************************************)
EXTENDS Integers, Sequences, FiniteSets, TLC

(***************************************************************************)
(* Bounds of the model.                                                    *)
(***************************************************************************)
MaxTables == 3      \* tables / collections in one list
MaxRels == 3        \* relationships handed to getInsertionOrder
MaxDDLRels == 1     \* relationships parsed from the schema script of a run
MaxDocs == 2        \* documents in one collection
MaxTotal == 3       \* documents getDocumentCount reports for a collection
MaxBatch == 2       \* largest configured batch size
MaxLen == 4         \* characters in an identifier handed to sanitizeIdentifier
MaxKeys == 1        \* top-level keys of a sampled document
MaxCols == 3        \* columns of a pre-existing destination table
MaxValues == 2      \* values handed to inferTypeFromValue in a row
MaxBlocks == 2      \* CREATE TABLE blocks of a schema script
MaxItems == 2       \* column and constraint lines of one block

TableNames == {"a", "b", "c"}
Modes == {"auto-tables", "pre-existing"}

VARIABLES
  \* ---- DDLParser.getInsertionOrder
  tables,          \* argument: string[] of distinct table names
  relationships,   \* argument: TableRelationship[]
  kahnResult,      \* `result` when the while loop of Kahn's phase has ended
  cycleReported,   \* logger.warn('Circular dependencies detected ...') was called
  order,           \* the returned array
  opc,             \* "call" before the call, "done" after it returned
  \* ---- MigrationEngine.migrate
  config,             \* the MigrationConfig: mode, postgresDDL given, batchSize
  mpc,                \* position in migrate; "returned" / "rejected" at its end
  mongoClient,        \* MongoAnalyzer.client: "null" or "client"
  pgClient,           \* PostgresManager.client: "null" or "client"
  opened,             \* stores whose client.connect() succeeded in this run
  closeCalled,        \* stores whose client.close() / client.end() was invoked
  ddlExecuted,        \* PostgresManager.executeDDL was invoked
  tablesCreated,      \* collections handed to PostgresManager.createTableFromSchema
  tableRelationships, \* MigrationEngine.tableRelationships
  result,             \* the MigrationResult accumulator
  collections,        \* what getCollections returned
  listed,             \* getCollections has returned
  schemas,            \* names of the analyzed schemas (auto-tables mode)
  migrationOrder,     \* the resolved order
  idx,                \* loop index of the running for-of loop
  cur,                \* locals of migrateCollection(ToExistingTable)
  attempted,          \* collections of migrationOrder whose iteration started
  failed,             \* collections whose analysis or migration threw
  warned,             \* <<collection, reason>> of every skip warning logged
  docsRead,           \* per collection, the documents getDocuments returned
  \* ---- sanitizeIdentifier
  sInput,          \* the identifier, a sequence of characters
  sOutputs,        \* sanitizeIdentifier(sInput), then sanitizeIdentifier of that
  \* ---- MongoAnalyzer.analyzeCollection
  apc,             \* "sampling" while documents are analyzed, "done" at the return
  fieldMap,        \* the Map<string, FieldSchema>, in insertion order
  promoted,        \* the field names whose recorded type was changed
  \* ---- PostgresManager inserts, one collection migrated repeatedly
  insertMode,      \* config.mode of the runs
  sourceDocs,      \* the documents of the source collection, in find({}) order
  pgTable,         \* the destination table: columns, rows, serial sequence
  advisor,         \* how the advisor call ends: "off" without a key, else
                   \* "error", "noContent", "badJson" or "answer"
  advised,         \* the mappings of the advisor's answer; <<>> when none
  runLog,          \* per finished migration: row count and whether it threw
  \* ---- inferTypeFromValue
  iValues,         \* the values handed to inferTypeFromValue, one per call
  iTags,           \* the tags returned so far
  \* ---- resolution of the column mappings of one collection
  sampleDoc,       \* the document the source schema is derived from
  pgColumns,       \* pgSchema.columns, the ColumnSchema list of the table
  hint,            \* what suggestColumnMapping answers; <<>> for no key, null, []
  resolved,        \* <<>> before the resolution, then <<columnMappings>>
  \* ---- DDLParser.parseRelationships
  ddlScript,       \* the script as written: its tables and their lines
  ddlText,         \* the text of the script, the argument of parseRelationships
  parsed           \* <<>> before the call, then <<the returned relationships>>

orderVars == <<tables, relationships, kahnResult, cycleReported, order, opc>>

connVars == <<mongoClient, pgClient, opened, closeCalled>>
loopVars ==
  <<collections, listed, schemas, migrationOrder, idx, cur, attempted, failed,
    warned, docsRead, tablesCreated>>
migrateVars ==
  <<config, mpc, connVars, ddlExecuted, tableRelationships, result, loopVars>>

sanitizeVars == <<sInput, sOutputs>>

analyzeVars == <<apc, fieldMap, promoted>>

insertVars == <<insertMode, sourceDocs, pgTable, advisor, advised, runLog>>

inferVars == <<iValues, iTags>>

mappingVars == <<sampleDoc, pgColumns, hint, resolved>>

parseVars == <<ddlScript, ddlText, parsed>>

vars ==
  <<orderVars, migrateVars, sanitizeVars, analyzeVars, insertVars, inferVars,
    mappingVars, parseVars>>

\* what the actions of one component leave alone
notOrder == <<migrateVars, sanitizeVars, analyzeVars, insertVars, inferVars,
    mappingVars, parseVars>>
notMigrate == <<orderVars, sanitizeVars, analyzeVars, insertVars, inferVars,
    mappingVars, parseVars>>
notSanitize == <<orderVars, migrateVars, analyzeVars, insertVars, inferVars,
    mappingVars, parseVars>>
notAnalyze == <<orderVars, migrateVars, sanitizeVars, insertVars, inferVars,
    mappingVars, parseVars>>
notInsert == <<orderVars, migrateVars, sanitizeVars, analyzeVars, inferVars,
    mappingVars, parseVars>>

(***************************************************************************)
(* Array helpers (JavaScript Array semantics on TLA+ sequences).           *)
(***************************************************************************)
Includes(s, x) == \E i \in 1..Len(s) : s[i] = x

\* Array.prototype.indexOf, 1-based; 0 when x is absent
IndexOf(s, x) ==
  IF Includes(s, x)
  THEN CHOOSE i \in 1..Len(s) : s[i] = x /\ \A j \in 1..(i - 1) : s[j] # x
  ELSE 0

SeqToSet(s) == {s[i] : i \in 1..Len(s)}

IsDistinct(s) == \A i, j \in 1..Len(s) : i # j => s[i] # s[j]

SeqsUpTo(S, n) == UNION {[1..k -> S] : k \in 0..n}

(***************************************************************************)
(* Strings are sequences of one-character strings.                         *)
(***************************************************************************)
LowerLetters ==
  <<"a", "b", "c", "d", "e", "f", "g", "h", "i", "j", "k", "l", "m",
    "n", "o", "p", "q", "r", "s", "t", "u", "v", "w", "x", "y", "z">>
UpperLetters ==
  <<"A", "B", "C", "D", "E", "F", "G", "H", "I", "J", "K", "L", "M",
    "N", "O", "P", "Q", "R", "S", "T", "U", "V", "W", "X", "Y", "Z">>
Digits == {"0", "1", "2", "3", "4", "5", "6", "7", "8", "9"}

\* the character class [a-zA-Z0-9_]
IsWordChar(c) ==
  \/ Includes(LowerLetters, c) \/ Includes(UpperLetters, c)
  \/ c \in Digits \/ c = "_"

\* String.prototype.toLowerCase, one character
LowerChar(c) ==
  IF Includes(UpperLetters, c) THEN LowerLetters[IndexOf(UpperLetters, c)] ELSE c

ToLowerCase(str) == [i \in 1..Len(str) |-> LowerChar(str[i])]

\* .replace(/[^a-zA-Z0-9_]/g, '_')
ReplaceInvalid(str) ==
  [i \in 1..Len(str) |-> IF IsWordChar(str[i]) THEN str[i] ELSE "_"]

\* .replace(/^[0-9]/, '_$&')
SuffixLeadingDigit(str) ==
  IF str # <<>> /\ str[1] \in Digits THEN <<str[1], "_">> \o Tail(str) ELSE str
PrefixLeadingDigit(str) ==
  IF str # <<>> /\ str[1] \in Digits THEN <<"_">> \o str ELSE str

sanitizeIdentifier(name) == ToLowerCase(PrefixLeadingDigit(ReplaceInvalid(name)))

InputChars == {"a", "B", "1", "_", "-", "."}

\* no call under way: the state after both applications to the empty string
SanitizeIdle == sInput = <<>> /\ sOutputs = <<<<>>, <<>>>>

InitSanitizeInputs ==
  /\ sInput \in SeqsUpTo(InputChars, MaxLen)
  /\ sOutputs = <<>>

\* one more application: first to the input, then to the previous output
Sanitize ==
  /\ Len(sOutputs) < 2
  /\ sOutputs' = Append(sOutputs,
                        sanitizeIdentifier(IF sOutputs = <<>> THEN sInput
                                           ELSE sOutputs[Len(sOutputs)]))
  /\ UNCHANGED <<sInput, notSanitize>>

(***************************************************************************)
(* inferTypeFromValue and MongoAnalyzer.analyzeDocument.                   *)
(* A value is a record with its kind; an object carries its entries (key,  *)
(* value) in Object.entries order, an array its items.                     *)
(***************************************************************************)
Scalar(kind) == [kind |-> kind]
Object(entries) == [kind |-> "object", entries |-> entries]
Array(items) == [kind |-> "array", items |-> items]
Entry(key, value) == [key |-> key, value |-> value]

\* inferTypeFromValue: the typeof / instanceof cascade; an ObjectId is an
\* object whose toString() is 24 hex digits, any other object (a nested
\* document, a Binary, a Buffer) is 'object'
inferTypeFromValue(value) ==
  CASE value.kind \in {"null", "undefined"} -> "null"
    [] value.kind = "string" -> "string"
    [] value.kind = "number" -> "number"
    [] value.kind = "boolean" -> "boolean"
    [] value.kind = "date" -> "date"
    [] value.kind = "array" -> "array"
    [] value.kind = "objectId" -> "objectId"
    [] value.kind \in {"object", "binary"} -> "object"
    [] OTHER -> "string"

InferIdle == iValues = <<>> /\ iTags = <<>>

\* tag = inferTypeFromValue(value), for the next value of the list
Infer ==
  /\ Len(iTags) < Len(iValues)
  /\ iTags' = Append(iTags, inferTypeFromValue(iValues[Len(iTags) + 1]))
  /\ UNCHANGED <<iValues, orderVars, migrateVars, sanitizeVars, analyzeVars,
                 insertVars, mappingVars, parseVars>>

HasField(map, name) == \E i \in 1..Len(map) : map[i].name = name
FieldIndex(map, name) == CHOOSE i \in 1..Len(map) : map[i].name = name

\* if (!fieldMap.has(fieldName)) fieldMap.set(fieldName, {...})
EnsureField(map, name, value) ==
  IF HasField(map, name) THEN map
  ELSE Append(map, [name |-> name, type |-> inferTypeFromValue(value),
                    isRequired |-> FALSE, isArray |-> value.kind = "array"])

\* if (value !== null && value !== undefined) {
\*   if (field.type === 'null') field.type = currentType }
PromoteAlways(field, value) ==
  IF value.kind \notin {"null", "undefined"}
  THEN [field EXCEPT !.type = inferTypeFromValue(value)]
  ELSE field
PromoteType(field, value) ==
  IF value.kind \notin {"null", "undefined"} /\ field.type = "null"
  THEN [field EXCEPT !.type = inferTypeFromValue(value)]
  ELSE field

\* the entries analyzeDocument recurses into for a value: those of a nested
\* object, or of the first item of a non-empty array when it is an object
NestedEntries(value) ==
  IF value.kind = "object" THEN value.entries
  ELSE IF value.kind = "array" /\ value.items # <<>>
          /\ value.items[1].kind = "object"
  THEN value.items[1].entries
  ELSE <<>>

\* analyzeDocument(doc, fieldMap, prefix): for (const [key, value] of Object.entries(doc))
RECURSIVE analyzeDocument(_, _, _)
analyzeDocument(entries, map, prefix) ==
  IF entries = <<>> THEN map
  ELSE LET key == Head(entries).key
           value == Head(entries).value
           fieldName == IF prefix # <<>> THEN prefix \o <<".">> \o key ELSE key
           created == EnsureField(map, fieldName, value)
           i == FieldIndex(created, fieldName)
           updated == [created EXCEPT ![i] =
                         [PromoteType(@, value) EXCEPT
                            !.isArray = @ \/ (value.kind = "array" /\ value.items # <<>>)]]
           nested == analyzeDocument(NestedEntries(value), updated, fieldName)
       IN analyzeDocument(Tail(entries), nested, prefix)

\* the sampled documents: up to MaxKeys distinct top-level keys, values
\* nested one level deep
Keys == {<<"a">>, <<"b">>}
ScalarValues == {Scalar("null"), Scalar("string"), Scalar("number")}
InnerObjects == {Object(<<Entry(<<"x">>, v)>>) : v \in ScalarValues}
Values ==
  ScalarValues \cup InnerObjects
    \cup {Array(<<>>), Array(<<Object(<<Entry(<<"x">>, Scalar("number"))>>)>>)}
Documents ==
  {d \in SeqsUpTo([key : Keys, value : Values], MaxKeys) :
     \A i, j \in 1..Len(d) : i # j => d[i].key # d[j].key}

AnalyzeIdle == apc = "idle" /\ fieldMap = <<>> /\ promoted = {}

\* analyzeCollection after the sample was drawn: const fieldMap = new Map()
InitAnalyzeLocals == apc = "sampling" /\ fieldMap = <<>> /\ promoted = {}

\* for (const doc of documents) this.analyzeDocument(doc, fieldMap)
AnalyzeDocument ==
  /\ apc = "sampling"
  /\ \E doc \in Documents :
       /\ fieldMap' = analyzeDocument(doc, fieldMap, <<>>)
       /\ promoted' = promoted \cup
            {fieldMap[i].name : i \in
               {j \in 1..Len(fieldMap) :
                  fieldMap'[FieldIndex(fieldMap', fieldMap[j].name)].type
                    # fieldMap[j].type}}
  /\ UNCHANGED <<apc, notAnalyze>>

\* const fields = Array.from(fieldMap.values()); ... return { name, fields, indexes }
ReturnSchema ==
  /\ apc = "sampling"
  /\ apc' = "done"
  /\ UNCHANGED <<fieldMap, promoted, notAnalyze>>

(***************************************************************************)
(* DDLParser.getInsertionOrder                                             *)
(***************************************************************************)
\* TableRelationship, restricted to the two fields getInsertionOrder reads
TableRelationship == [tableName : TableNames, referencedTable : TableNames]

\* graph.set(table, new Set()); inDegree.set(table, 0) for every table
InitGraph(ts) == [t \in SeqToSet(ts) |-> <<>>]
InitInDegree(ts) == [t \in SeqToSet(ts) |-> 0]

\* Set.prototype.add on an insertion-ordered Set
SetAdd(set, x) == IF Includes(set, x) THEN set ELSE Append(set, x)

\* inDegree.set(rel.tableName, (inDegree.get(rel.tableName) || 0) + 1):
\* one more for every relationship, also when the edge is already in the Set
IncInDegree(inDegree, graph, rel) ==
  [inDegree EXCEPT ![rel.tableName] = @ + 1]

\* if (graph.has(rel.tableName) && graph.has(rel.referencedTable))
DependentInGraph(graph, rel) == rel.tableName \in DOMAIN graph
InGraph(graph, rel) ==
  rel.tableName \in DOMAIN graph /\ rel.referencedTable \in DOMAIN graph

\* relationships.forEach(rel => ...): build the dependency graph
RECURSIVE BuildGraph(_, _, _)
BuildGraph(rels, graph, inDegree) ==
  IF rels = <<>>
  THEN [graph |-> graph, inDegree |-> inDegree]
  ELSE LET rel == Head(rels) IN
       IF InGraph(graph, rel)
       THEN BuildGraph(Tail(rels),
                       [graph EXCEPT ![rel.referencedTable] = SetAdd(@, rel.tableName)],
                       IncInDegree(inDegree, graph, rel))
       ELSE BuildGraph(Tail(rels), graph, inDegree)

\* inDegree.forEach((degree, table) => if (degree === 0) queue.push(table));
\* a Map iterates in insertion order, which is the order of `tables`
SeedQueueAll(ts, inDegree) == ts
SeedQueue(ts, inDegree) == SelectSeq(ts, LAMBDA t : inDegree[t] = 0)

\* graph.get(table).forEach(dependentTable => ...)
RECURSIVE ReleaseDependents(_, _, _)
ReleaseDependents(deps, inDegree, queue) ==
  IF deps = <<>>
  THEN [inDegree |-> inDegree, queue |-> queue]
  ELSE LET d == Head(deps)
           dec == [inDegree EXCEPT ![d] = @ - 1]
       IN ReleaseDependents(Tail(deps), dec,
                            IF dec[d] = 0 THEN Append(queue, d) ELSE queue)

\* while (queue.length > 0) { table = queue.shift(); result.push(table); ... }
RECURSIVE KahnLoop(_, _, _, _)
KahnLoop(queue, sorted, inDegree, graph) ==
  IF queue = <<>>
  THEN sorted
  ELSE LET table == Head(queue)
           step == ReleaseDependents(graph[table], inDegree, Tail(queue))
       IN KahnLoop(step.queue, Append(sorted, table), step.inDegree, graph)

\* `result` at the end of Kahn's phase
KahnPhase(ts, rels) ==
  LET built == BuildGraph(rels, InitGraph(ts), InitInDegree(ts))
  IN KahnLoop(SeedQueue(ts, built.inDegree), <<>>, built.inDegree, built.graph)

\* tables.filter(table => !sorted.includes(table))
RemainingNone(ts, sorted) == <<>>
RemainingReversed(ts, sorted) ==
  LET rem == SelectSeq(ts, LAMBDA t : ~Includes(sorted, t))
  IN [i \in 1..Len(rem) |-> rem[Len(rem) + 1 - i]]
Remaining(ts, sorted) == SelectSeq(ts, LAMBDA t : ~Includes(sorted, t))

\* if (sorted.length !== tables.length) { warn; sorted.push(...remaining) }
CycleDetected(ts, sorted) == Len(sorted) # Len(ts)

FinishOrder(ts, sorted) ==
  IF CycleDetected(ts, sorted) THEN sorted \o Remaining(ts, sorted) ELSE sorted

GetInsertionOrderOf(ts, rels) == FinishOrder(ts, KahnPhase(ts, rels))

TableLists == {s \in SeqsUpTo(TableNames, MaxTables) : IsDistinct(s)}
RelationshipLists == SeqsUpTo(TableRelationship, MaxRels)

InitOrderInputs ==
  /\ tables \in TableLists
  /\ relationships \in RelationshipLists
  /\ kahnResult = <<>>
  /\ cycleReported = FALSE
  /\ order = <<>>
  /\ opc = "call"

GetInsertionOrder ==
  /\ opc = "call"
  /\ kahnResult' = KahnPhase(tables, relationships)
  /\ cycleReported' = CycleDetected(tables, kahnResult')
  /\ order' = FinishOrder(tables, kahnResult')
  /\ opc' = "done"
  /\ UNCHANGED <<tables, relationships, notOrder>>

(***************************************************************************)
(* DDLParser.parseRelationships.  The script text is a sequence of         *)
(* lexemes: a maximal run of word characters [A-Za-z0-9_] is one element,  *)
(* every other character is an element of its own; keywords of the         *)
(* scripts are upper case.                                                 *)
(***************************************************************************)
\* the least index i >= from with text[i] \in S, Len(text) + 1 when none
FindFrom(text, from, S) ==
  IF \E i \in from..Len(text) : text[i] \in S
  THEN CHOOSE i \in from..Len(text) :
         text[i] \in S /\ \A j \in from..(i - 1) : text[j] \notin S
  ELSE Len(text) + 1

At(text, i) == IF i \in 1..Len(text) THEN text[i] ELSE ""

\* whether the lexemes of `pattern` stand at index i of the text
StartsAt(text, i, pattern) ==
  \A k \in 1..Len(pattern) : At(text, i + k - 1) = pattern[k]

\* match[n].trim() without its quotation marks
Unquote(str) ==
  LET first == FindFrom(str, 1, {x \in SeqToSet(str) : x # " "})
      last == IF first > Len(str) THEN 0
              ELSE CHOOSE i \in first..Len(str) :
                     str[i] # " " /\ \A j \in (i + 1)..Len(str) : str[j] = " "
  IN SelectSeq(SubSeq(str, first, last), LAMBDA x : x \notin {"\""})

\* cleanDDL: the line comments are removed first, then the block comments,
\* then every run of white space becomes one space and the text is trimmed
cleanDDL(ddlContent) ==
  LET pairAt(t, a, b) ==
        LET S == {i \in 1..(Len(t) - 1) : t[i] = a /\ t[i + 1] = b}
        IN IF S = {} THEN Len(t) + 1 ELSE CHOOSE i \in S : \A k \in S : i <= k
      RECURSIVE lineComments(_)
      lineComments(t) ==
        LET start == pairAt(t, "-", "-")
        IN IF start > Len(t) THEN t
           ELSE SubSeq(t, 1, start - 1)
                  \o lineComments(SubSeq(t, FindFrom(t, start, {"\n"}), Len(t)))
      RECURSIVE blockComments(_)
      blockComments(t) ==
        LET start == pairAt(t, "/", "*")
            rest == SubSeq(t, start + 2, Len(t))
            close == pairAt(rest, "*", "/")
        IN IF start > Len(t) \/ close > Len(rest) THEN t
           ELSE SubSeq(t, 1, start - 1)
                  \o blockComments(SubSeq(rest, close + 2, Len(rest)))
      whitespace(t) ==
        LET blank(i) == i \in 1..Len(t) /\ t[i] \in {" ", "\n"}
            marked == [i \in 1..Len(t) |->
                         IF blank(i) THEN IF blank(i - 1) THEN "" ELSE " "
                         ELSE t[i]]
        IN SelectSeq(marked, LAMBDA x : x # "")
      spaced == whitespace(blockComments(lineComments(ddlContent)))
      first == IF At(spaced, 1) = " " THEN 2 ELSE 1
      last == IF At(spaced, Len(spaced)) = " " THEN Len(spaced) - 1 ELSE Len(spaced)
  IN SubSeq(spaced, first, last)

\* REFERENCES\s+([^\s(]+)\s*\(\s*([^)]+)\s*\) with REFERENCES at index j of the
\* cleaned text: whether it matches, the two groups, the index of its end
ReferencesTail(text, j) ==
  LET k == FindFrom(text, j + 2, {" ", "("})
      open == IF At(text, k) = " " THEN k + 1 ELSE k
      close == FindFrom(text, open + 1, {")"})
  IN [ok |-> /\ At(text, j) = "REFERENCES" /\ At(text, j + 1) = " "
             /\ k > j + 2 /\ At(text, open) = "("
             /\ close <= Len(text) /\ close > open + 1,
      referencedTable |-> Unquote(SubSeq(text, j + 2, k - 1)),
      referencedColumn |-> Unquote(SubSeq(text, open + 1, close - 1)),
      end |-> close]

\* findTableNameForConstraint: the name of the last
\* CREATE\s+TABLE\s+(?:IF\s+NOT\s+EXISTS\s+)?([^\s(]+) in the text before the
\* match that starts at constraintIndex; <<>> for null
findTableNameForConstraint(ddlContent, constraintIndex) ==
  LET before == SubSeq(ddlContent, 1, constraintIndex - 1)
      nameAt(i) == SubSeq(before, i, FindFrom(before, i, {" ", "("}) - 1)
      header(i) == StartsAt(before, i, <<"CREATE", " ", "TABLE", " ">>)
      guarded(i) ==
        /\ StartsAt(before, i + 4, <<"IF", " ", "NOT", " ", "EXISTS", " ">>)
        /\ nameAt(i + 10) # <<>>
      heads == {i \in 1..Len(before) :
                  header(i) /\ (guarded(i) \/ nameAt(i + 4) # <<>>)}
      last == CHOOSE i \in heads : \A j \in heads : j <= i
  IN IF heads = {} THEN <<>>
     ELSE Unquote(nameAt(IF guarded(last) THEN last + 10 ELSE last + 4))

\* the matches of foreignKeyRegex from index `from` on, left to right:
\* FOREIGN\s+KEY\s*\(\s*([^)]+)\s*\)\s+REFERENCES\s+([^\s(]+)\s*\(\s*([^)]+)\s*\)
RECURSIVE ForeignKeyMatches(_, _)
ForeignKeyMatches(text, from) ==
  LET matchAt(i) ==
        LET open == IF At(text, i + 3) = " " THEN i + 4 ELSE i + 3
            close == FindFrom(text, open + 1, {")"})
            tail == ReferencesTail(text, close + 2)
        IN [tail EXCEPT
              !.ok = /\ StartsAt(text, i, <<"FOREIGN", " ", "KEY">>)
                     /\ At(text, open) = "(" /\ close > open + 1
                     /\ At(text, close + 1) = " " /\ tail.ok] @@
           [index |-> i, columnName |-> Unquote(SubSeq(text, open + 1, close - 1))]
      starts == {i \in from..Len(text) : text[i] = "FOREIGN" /\ matchAt(i).ok}
      first == CHOOSE i \in starts : \A j \in starts : i <= j
  IN IF starts = {} THEN <<>>
     ELSE <<matchAt(first)>> \o ForeignKeyMatches(text, matchAt(first).end + 1)

\* the matches of inlineReferencesRegex from index `from` on, left to right:
\* (\w+)\s+[^,)]*REFERENCES\s+([^\s(]+)\s*\(\s*([^)]+)\s*\)
RECURSIVE InlineMatches(_, _)
InlineMatches(text, from) ==
  LET word(x) == x \notin {"", " ", "(", ")", ",", ";", "-", "/", "*", "\"", "."}
      references == {j \in from..Len(text) :
                       text[j] = "REFERENCES" /\ ReferencesTail(text, j).ok}
      tails(i) == {j \in references :
                     /\ j >= i + 2
                     /\ \A k \in (i + 2)..(j - 1) : text[k] \notin {",", ")"}}
      matchAt(i) ==
        LET j == CHOOSE j \in tails(i) : \A k \in tails(i) : k <= j
        IN ReferencesTail(text, j) @@ [index |-> i, columnName |-> <<text[i]>>]
      starts == {i \in from..Len(text) :
                   word(text[i]) /\ At(text, i + 1) = " " /\ tails(i) # {}}
      first == CHOOSE i \in starts : \A j \in starts : i <= j
  IN IF starts = {} THEN <<>>
     ELSE <<matchAt(first)>> \o InlineMatches(text, matchAt(first).end + 1)

\* if (tableName) relationships.push({tableName, referencedTable, columnName,
\* referencedColumn}), for the matches of one regex
Relationships(text, matches) ==
  LET named == [i \in 1..Len(matches) |->
                  [tableName |-> findTableNameForConstraint(text, matches[i].index),
                   referencedTable |-> matches[i].referencedTable,
                   columnName |-> matches[i].columnName,
                   referencedColumn |-> matches[i].referencedColumn]]
  IN SelectSeq(named, LAMBDA rel : rel.tableName # <<>>)

parseRelationships(ddlContent) ==
  LET cleanedDDL == cleanDDL(ddlContent)
  IN Relationships(cleanedDDL, ForeignKeyMatches(cleanedDDL, 1))
       \o Relationships(cleanedDDL, InlineMatches(cleanedDDL, 1))

\* the text of a script: an optional ALTER TABLE statement, then the CREATE
\* TABLE blocks, one column or constraint per line
RenderScript(script) ==
  LET RECURSIVE Flatten(_)
      Flatten(parts) ==
        IF parts = <<>> THEN <<>> ELSE Head(parts) \o Flatten(Tail(parts))
      clause(kind) ==
        CASE kind = "inline" ->
               <<"author_id", " ", "INT", " ", "REFERENCES", " ", "users",
                 "(", "id", ")">>
          [] kind = "foreignKey" ->
               <<"FOREIGN", " ", "KEY", " ", "(", "owner_id", ")", " ",
                 "REFERENCES", " ", "teams", "(", "id", ")">>
          [] OTHER -> <<"id", " ", "INT">>
      active(item) == item.comment \in {"none", "dashes"}
      line(items, i) ==
        LET comma == IF \E j \in (i + 1)..Len(items) : active(items[j])
                     THEN <<",">> ELSE <<>>
        IN CASE items[i].comment = "line" ->
                  <<" ", "-", "-", " ">> \o clause(items[i].kind) \o <<"\n">>
             [] items[i].comment = "block" ->
                  <<" ", "/", "*", " ">> \o clause(items[i].kind)
                    \o <<" ", "*", "/", "\n">>
             [] items[i].comment = "dashes" ->
                  <<" ", "/", "*", " ", "-", "-", " ", "*", "/", " ">>
                    \o clause(items[i].kind) \o comma \o <<"\n">>
             [] OTHER -> <<" ">> \o clause(items[i].kind) \o comma \o <<"\n">>
      block(table) ==
        <<"CREATE", " ", "TABLE", " ", table.name, " ", "(", "\n">>
          \o Flatten([i \in 1..Len(table.items) |-> line(table.items, i)])
          \o <<")", ";", "\n">>
  IN (IF script.stray
      THEN <<"ALTER", " ", "TABLE", " ", "posts", " ", "ADD", " ">>
             \o clause("foreignKey") \o <<";", "\n">>
      ELSE <<>>)
       \o Flatten([i \in 1..Len(script.tables) |-> block(script.tables[i])])

\* the scripts: up to MaxBlocks tables of up to MaxItems lines each
DDLScripts ==
  LET items == {[kind |-> "column", comment |-> "none"]} \cup
                 [kind : {"inline", "foreignKey"},
                  comment : {"none", "line", "block", "dashes"}]
      bodies == SeqsUpTo(items, MaxItems) \ {<<>>}
      names == <<"posts", "tasks", "notes", "files">>
  IN {[stray |-> s,
       tables |-> [i \in 1..Len(b) |-> [name |-> names[i], items |-> b[i]]]] :
        s \in BOOLEAN, b \in SeqsUpTo(bodies, MaxBlocks)}

\* the relationships a script declares outside comments, in the order of the
\* text: table by table, line by line
DeclaredRelationships(script) ==
  LET RECURSIVE Flatten(_)
      Flatten(parts) ==
        IF parts = <<>> THEN <<>> ELSE Head(parts) \o Flatten(Tail(parts))
      declared(table, item) ==
        IF item.comment \in {"line", "block"} \/ item.kind = "column" THEN <<>>
        ELSE <<[tableName |-> <<table.name>>,
                referencedTable |->
                  IF item.kind = "inline" THEN <<"users">> ELSE <<"teams">>,
                columnName |->
                  IF item.kind = "inline" THEN <<"author_id">> ELSE <<"owner_id">>,
                referencedColumn |-> <<"id">>]>>
      ofTable(table) ==
        Flatten([i \in 1..Len(table.items) |-> declared(table, table.items[i])])
  IN Flatten([i \in 1..Len(script.tables) |-> ofTable(script.tables[i])])

\* the script with its comments removed
Uncommented(script) ==
  [script EXCEPT !.tables =
     [i \in 1..Len(script.tables) |->
        [script.tables[i] EXCEPT !.items =
           LET kept == SelectSeq(script.tables[i].items,
                                 LAMBDA item : item.comment \notin {"line", "block"})
           IN [k \in 1..Len(kept) |-> [kept[k] EXCEPT !.comment = "none"]]]]]


ParseIdle ==
  /\ ddlScript = [stray |-> FALSE, tables |-> <<>>]
  /\ ddlText = <<>> /\ parsed = <<>>

InitParseInputs ==
  /\ ddlScript \in DDLScripts
  /\ ddlText = RenderScript(ddlScript)
  /\ parsed = <<>>

\* this.tableRelationships = this.ddlParser.parseRelationships(ddlContent)
ParseRelationships ==
  /\ parsed = <<>>
  /\ parsed' = <<parseRelationships(ddlText)>>
  /\ UNCHANGED <<ddlScript, ddlText, orderVars, migrateVars, sanitizeVars,
                 analyzeVars, insertVars, inferVars, mappingVars>>

(***************************************************************************)
(* PostgresManager: the destination table and the two insert paths, and    *)
(* MigrationEngine.createBasicColumnMappings.  A collection is migrated,   *)
(* and then migrated again.                                                *)
(***************************************************************************)
IdName == <<"i", "d">>
MongoIdName == <<"m", "o", "n", "g", "o", "_", "i", "d">>
UnderscoreId == <<"_", "i", "d">>
NameName == <<"n", "a", "m", "e">>
UserIdName == <<"u", "s", "e", "r", "_", "i", "d">>
ProfileName == <<"p", "r", "o", "f", "i", "l", "e">>
ProfileAgeName == ProfileName \o <<"_", "a", "g", "e">>

ObjectId(hex) == [kind |-> "objectId", hex |-> hex]
String(text) == [kind |-> "string", text |-> text]

\* values held by a row, and query parameters
SqlNull == [kind |-> "null"]
Text(text) == [kind |-> "text", text |-> text]
Integer(n) == [kind |-> "int", int |-> n]

\* a column of a table as the database holds it
Column(name, type, primaryKey, unique, serial) ==
  [name |-> name, type |-> type, primaryKey |-> primaryKey,
   unique |-> unique, serial |-> serial]

NoTable == [exists |-> FALSE, columns |-> <<>>, rows |-> <<>>, nextval |-> 1]
NoTarget == <<>>

\* String.prototype.includes
IncludesStr(str, sub) ==
  \E i \in 0..(Len(str) - Len(sub)) : SubSeq(str, i + 1, i + Len(sub)) = sub

\* .replace(/\./g, '_') and .replace(/_/g, '.')
ReplaceAll(str, from, to) ==
  [i \in 1..Len(str) |-> IF str[i] = from THEN to ELSE str[i]]

\* path.split('.')
RECURSIVE SplitDots(_)
SplitDots(path) ==
  IF ~Includes(path, ".") THEN <<path>>
  ELSE LET i == IndexOf(path, ".")
       IN <<SubSeq(path, 1, i - 1)>> \o SplitDots(SubSeq(path, i + 1, Len(path)))

\* getNestedValue on the split path: descend while `key in current`
RECURSIVE getNestedValue(_, _)
getNestedValue(current, keys) ==
  IF keys = <<>> THEN current
  ELSE IF current.kind = "object"
          /\ \E i \in 1..Len(current.entries) : current.entries[i].key = Head(keys)
  THEN LET i == CHOOSE j \in 1..Len(current.entries) :
                  current.entries[j].key = Head(keys)
       IN getNestedValue(current.entries[i].value, Tail(keys))
  ELSE Scalar("null")

\* the query parameter of a document value: null stays null, a string is
\* bound as text, an object is bound as its JSON.stringify text
ToParam(value) ==
  CASE value.kind \in {"null", "undefined"} -> SqlNull
    [] value.kind = "string" -> Text(value.text)
    [] OTHER -> Text("json")

\* (doc as any)?._id?.toString() || null
IdParam(doc) ==
  LET id == getNestedValue(Object(doc), <<UnderscoreId>>)
  IN IF id.kind = "objectId" THEN Text(id.hex) ELSE ToParam(id)

\* getTableSchema: name, type, primaryKey from the catalog; `unique` is not
\* among the properties it fills in, so it reads as undefined (falsy)
getTableSchema(tbl) ==
  [i \in 1..Len(tbl.columns) |->
     [name |-> tbl.columns[i].name, type |-> tbl.columns[i].type,
      primaryKey |-> tbl.columns[i].primaryKey, unique |-> FALSE]]

mapMongoTypeToPostgres(mongoType, isArray) ==
  IF isArray THEN "JSONB"
  ELSE CASE mongoType = "string" -> "TEXT"
         [] mongoType = "number" -> "DECIMAL"
         [] mongoType = "boolean" -> "BOOLEAN"
         [] mongoType = "date" -> "TIMESTAMP"
         [] mongoType = "objectId" -> "UUID"
         [] mongoType \in {"object", "array"} -> "JSONB"
         [] mongoType = "binary" -> "BYTEA"
         [] OTHER -> "TEXT"

\* the outcome of a call on the table: the table afterwards, whether it threw
Outcome(tbl, threw) == [table |-> tbl, threw |-> threw]

\* INSERT INTO t (columnNames) VALUES (values) [ON CONFLICT (target) DO NOTHING]
\* as the database executes it: defaults, type and NOT NULL checks (a text
\* parameter is no number), the arbiter index first, then every other
\* unique index
ExecInsert(tbl, columnNames, values, target) ==
  LET cols == tbl.columns
      n == Len(cols)
      given(i) == Includes(columnNames, cols[i].name)
      row == [i \in 1..n |->
                IF given(i) THEN values[IndexOf(columnNames, cols[i].name)]
                ELSE IF cols[i].serial THEN Integer(tbl.nextval) ELSE SqlNull]
      accepts(type, value) ==
        \/ value = SqlNull \/ type = "TEXT"
        \/ type \in {"INTEGER", "BIGINT", "DECIMAL"} /\ value.kind = "int"
      keyed(i) == cols[i].primaryKey \/ cols[i].unique
      clash(i) == /\ keyed(i) /\ row[i] # SqlNull
                  /\ \E r \in 1..Len(tbl.rows) : tbl.rows[r][i] = row[i]
      rejected ==
        \/ ~IsDistinct(columnNames)
        \/ \E c \in SeqToSet(columnNames) : \A i \in 1..n : cols[i].name # c
        \/ target # NoTarget /\ ~\E i \in 1..n : cols[i].name = target /\ keyed(i)
        \/ \E i \in 1..n : ~accepts(cols[i].type, row[i])
        \/ \E i \in 1..n : cols[i].primaryKey /\ row[i] = SqlNull
      drawn == [tbl EXCEPT !.nextval =
                  IF \E i \in 1..n : cols[i].serial /\ ~given(i) THEN @ + 1 ELSE @]
  IN IF rejected THEN Outcome(tbl, TRUE)
     ELSE IF \E i \in 1..n : cols[i].name = target /\ clash(i)
     THEN Outcome(drawn, FALSE)
     ELSE IF \E i \in 1..n : clash(i) THEN Outcome(drawn, TRUE)
     ELSE Outcome([drawn EXCEPT !.rows = Append(@, row)], FALSE)

\* for (const doc of documents) { ... await this.client.query(insertQuery,
\* values) ... throw error }: one statement per document, stopped by a throw
RECURSIVE ExecEach(_, _, _, _)
ExecEach(tbl, columnNames, valueRows, target) ==
  IF valueRows = <<>> THEN Outcome(tbl, FALSE)
  ELSE LET one == ExecInsert(tbl, columnNames, Head(valueRows), target)
       IN IF one.threw THEN one
          ELSE ExecEach(one.table, columnNames, Tail(valueRows), target)

\* CREATE TABLE IF NOT EXISTS name (id SERIAL PRIMARY KEY, mongo_id TEXT
\* UNIQUE, one column per field other than _id)
createTableFromSchema(tbl, fields) ==
  LET others == SelectSeq(fields, LAMBDA f : f.name # UnderscoreId)
      columns ==
        <<Column(IdName, "INTEGER", TRUE, FALSE, TRUE),
          Column(MongoIdName, "TEXT", FALSE, TRUE, FALSE)>> \o
        [i \in 1..Len(others) |->
           Column(sanitizeIdentifier(ReplaceAll(others[i].name, ".", "_")),
                  mapMongoTypeToPostgres(others[i].type, others[i].isArray),
                  FALSE, FALSE, FALSE)]
  IN IF tbl.exists THEN Outcome(tbl, FALSE)
     ELSE IF ~IsDistinct([i \in 1..Len(columns) |-> columns[i].name])
     THEN Outcome(tbl, TRUE)
     ELSE Outcome([exists |-> TRUE, columns |-> columns, rows |-> <<>>,
                   nextval |-> 1], FALSE)

insertDocuments(tbl, documents) ==
  IF documents = <<>> THEN Outcome(tbl, FALSE)
  ELSE IF ~tbl.exists THEN Outcome(tbl, TRUE)
  ELSE LET tableSchema == getTableSchema(tbl)
           columnNames ==
             SelectSeq([i \in 1..Len(tableSchema) |-> tableSchema[i].name],
                       LAMBDA name : name # IdName)
           valuesOf(doc) ==
             [i \in 1..Len(columnNames) |->
                IF columnNames[i] = MongoIdName THEN IdParam(doc)
                ELSE ToParam(getNestedValue(Object(doc),
                       SplitDots(ReplaceAll(columnNames[i], "_", "."))))]
       IN ExecEach(tbl, columnNames,
                   [d \in 1..Len(documents) |-> valuesOf(documents[d])],
                   IF Includes(columnNames, MongoIdName) THEN MongoIdName
                   ELSE NoTarget)

insertDocumentsWithMapping(tbl, documents, columnMappings) ==
  IF documents = <<>> THEN Outcome(tbl, FALSE)
  ELSE IF ~tbl.exists THEN Outcome(tbl, TRUE)
  ELSE LET tableSchema == getTableSchema(tbl)
           validMappings ==
             SelectSeq(columnMappings,
                       LAMBDA m : \E i \in 1..Len(tableSchema) :
                                    tableSchema[i].name = m.postgresColumn)
           valuesOf(doc) ==
             [i \in 1..Len(validMappings) |->
                IF validMappings[i].mongoField = UnderscoreId THEN IdParam(doc)
                ELSE ToParam(getNestedValue(Object(doc),
                       SplitDots(validMappings[i].mongoField)))]
           keyColumns ==
             SelectSeq(tableSchema, LAMBDA col : col.unique \/ col.primaryKey)
       IN IF validMappings = <<>> THEN Outcome(tbl, FALSE)
          ELSE ExecEach(tbl,
                        [i \in 1..Len(validMappings) |-> validMappings[i].postgresColumn],
                        [d \in 1..Len(documents) |-> valuesOf(documents[d])],
                        IF keyColumns # <<>> THEN Head(keyColumns).name
                        ELSE NoTarget)

\* the loop without its partial matches
MapFieldsExactOnly(fields, columns) ==
  LET exact == SelectSeq(fields,
                 LAMBDA f : /\ f.name # UnderscoreId
                            /\ \E i \in 1..Len(columns) :
                                 columns[i].name = ToLowerCase(ReplaceAll(f.name, ".", "_")))
  IN [k \in 1..Len(exact) |->
        [mongoField |-> exact[k].name,
         postgresColumn |-> ToLowerCase(ReplaceAll(exact[k].name, ".", "_"))]]

\* the loop of createBasicColumnMappings over mongoSchema.fields: exact
\* match of the lowercased, dot-free field name first, else the first column
\* one of whose name and the field name contains the other
RECURSIVE MapFields(_, _)
MapFields(fields, columns) ==
  IF fields = <<>> THEN <<>>
  ELSE LET field == Head(fields)
           sanitizedFieldName == ToLowerCase(ReplaceAll(field.name, ".", "_"))
           matching ==
             SelectSeq(columns,
                       LAMBDA col :
                         \/ IncludesStr(ToLowerCase(col.name), sanitizedFieldName)
                         \/ IncludesStr(sanitizedFieldName, ToLowerCase(col.name)))
           mapped ==
             IF field.name = UnderscoreId THEN <<>>
             ELSE IF \E i \in 1..Len(columns) : columns[i].name = sanitizedFieldName
             THEN <<[mongoField |-> field.name, postgresColumn |-> sanitizedFieldName]>>
             ELSE IF matching # <<>>
             THEN <<[mongoField |-> field.name, postgresColumn |-> Head(matching).name]>>
             ELSE <<>>
       IN mapped \o MapFields(Tail(fields), columns)

\* AIAssistant.suggestColumnMapping: null without a client, when the request
\* throws, when the reply has no content or is no JSON; else result.mappings
suggestColumnMapping(outcome, mappings) ==
  [absent |-> outcome # "answer",
   mappings |-> IF outcome = "answer" THEN mappings ELSE <<>>]

\* if (!columnMappings || columnMappings.length === 0) columnMappings = basic
ChooseUnlessNull(suggested, basic) ==
  IF suggested.absent THEN basic ELSE suggested.mappings
ChooseMappings(suggested, basic) ==
  IF suggested.absent \/ suggested.mappings = <<>> THEN basic
  ELSE suggested.mappings

createBasicColumnMappings(fields, columns) ==
  LET idColumns ==
        SelectSeq(columns,
                  LAMBDA col : /\ IncludesStr(ToLowerCase(col.name), IdName)
                               /\ (col.unique \/ col.primaryKey))
  IN (IF idColumns # <<>>
      THEN <<[mongoField |-> UnderscoreId, postgresColumn |-> Head(idColumns).name]>>
      ELSE <<>>) \o MapFields(fields, columns)

\* analyzeCollection on a collection small enough to be sampled whole
RECURSIVE AnalyzeSample(_, _)
AnalyzeSample(documents, map) ==
  IF documents = <<>> THEN map
  ELSE AnalyzeSample(Tail(documents), analyzeDocument(Head(documents), map, <<>>))

\* the source collection: documents { _id: ObjectId, name: string }, and
\* documents whose other fields are named first_name, userName, id, or
\* profile with a nested age next to profile_age
SourceDocuments ==
  {<<Entry(UnderscoreId, ObjectId(h)), Entry(NameName, String(t))>> :
     h \in {"h1", "h2"}, t \in {"x", "y"}}
    \cup
  {<<Entry(UnderscoreId, ObjectId("h1"))>> \o rest :
     rest \in {<<Entry(<<"f", "i", "r", "s", "t", "_", "n", "a", "m", "e">>, String("x"))>>,
               <<Entry(<<"u", "s", "e", "r", "N", "a", "m", "e">>, String("x"))>>,
               <<Entry(IdName, String("x"))>>,
               <<Entry(ProfileName, Object(<<Entry(<<"a", "g", "e">>, String("x"))>>)),
                 Entry(ProfileAgeName, String("y"))>>}}
SourceCollections ==
  {c \in SeqsUpTo(SourceDocuments, MaxDocs) :
     \A i, j \in 1..Len(c) : i # j => c[i][1].value # c[j][1].value}

\* the destination tables of pre-existing mode: up to MaxCols of these
\* columns, names distinct, at most one primary key
ColumnCatalog ==
  {Column(IdName, "INTEGER", TRUE, FALSE, TRUE),
   Column(<<"p", "k">>, "INTEGER", TRUE, FALSE, TRUE),
   Column(<<"u", "s", "e", "r", "_", "i", "d">>, "TEXT", TRUE, FALSE, FALSE),
   Column(<<"u", "s", "e", "r", "_", "i", "d">>, "TEXT", FALSE, TRUE, FALSE),
   Column(NameName, "TEXT", FALSE, FALSE, FALSE),
   Column(NameName, "TEXT", FALSE, TRUE, FALSE)}
ExistingTables ==
  {[exists |-> TRUE, columns |-> cols, rows |-> <<>>, nextval |-> 1] :
     cols \in {s \in SeqsUpTo(ColumnCatalog, MaxCols) :
                 /\ s # <<>>
                 /\ IsDistinct([i \in 1..Len(s) |-> s[i].name])
                 /\ Cardinality({i \in 1..Len(s) : s[i].primaryKey}) <= 1}}

\* a ColumnSchema as createBasicColumnMappings receives it
ColumnSchema(name, type, primaryKey, unique) ==
  [name |-> name, type |-> type, primaryKey |-> primaryKey, unique |-> unique]

MappingIdle ==
  sampleDoc = <<>> /\ pgColumns = <<>> /\ hint = <<>> /\ resolved = <<>>

\* the collections, tables and advisor answers the mapping is resolved for
InitMappingInputs ==
  /\ sampleDoc \in
       {<<Entry(UnderscoreId, ObjectId("h1"))>>,
        <<Entry(UnderscoreId, ObjectId("h1")), Entry(NameName, String("x"))>>,
        <<Entry(UnderscoreId, ObjectId("h1")),
          Entry(<<"N", "a", "m", "e">>, String("x"))>>,
        <<Entry(UnderscoreId, String("507f1f77bcf86cd799439011")),
          Entry(ProfileName, Object(<<Entry(<<"a", "g", "e">>, Scalar("number"))>>))>>}
  /\ pgColumns \in
       {s \in SeqsUpTo({ColumnSchema(IdName, "INTEGER", TRUE, FALSE),
                        ColumnSchema(<<"p", "k">>, "INTEGER", TRUE, FALSE),
                        ColumnSchema(UserIdName, "TEXT", FALSE, TRUE),
                        ColumnSchema(NameName, "TEXT", FALSE, FALSE),
                        ColumnSchema(ProfileName, "JSONB", FALSE, FALSE),
                        ColumnSchema(<<"a", "g", "e">>, "INTEGER", FALSE, FALSE),
                        ColumnSchema(ProfileAgeName, "INTEGER", FALSE, FALSE)},
                       MaxCols) :
          IsDistinct([i \in 1..Len(s) |-> s[i].name])}
  /\ hint \in {<<>>, <<[mongoField |-> UnderscoreId, postgresColumn |-> UserIdName]>>}
  /\ resolved = <<>>

\* migrateCollectionToExistingTable, up to the mappings it will use: the
\* advised mappings, or the basic ones when there are none
ResolveMapping ==
  /\ resolved = <<>>
  /\ resolved' =
       <<ChooseMappings([absent |-> FALSE, mappings |-> hint],
                        createBasicColumnMappings(
                          AnalyzeSample(<<sampleDoc>>, <<>>), pgColumns))>>
  /\ UNCHANGED <<sampleDoc, pgColumns, hint, orderVars, migrateVars,
                 sanitizeVars, analyzeVars, insertVars, inferVars, parseVars>>

InsertIdle ==
  /\ insertMode = "auto-tables" /\ sourceDocs = <<>>
  /\ pgTable = NoTable /\ advisor = "off" /\ advised = <<>> /\ runLog = <<>>

\* answers of the advisor: none, or mappings of _id and name, to columns
\* that need not exist
AdvisedMappings ==
  {<<>>,
   <<[mongoField |-> UnderscoreId, postgresColumn |-> <<"k", "e", "y">>]>>,
   <<[mongoField |-> UnderscoreId, postgresColumn |-> <<"u", "s", "e", "r", "_", "i", "d">>],
     [mongoField |-> NameName, postgresColumn |-> <<"n", "o">>]>>}

InitInsertInputs ==
  /\ insertMode \in Modes
  /\ sourceDocs \in SourceCollections
  /\ pgTable \in IF insertMode = "auto-tables" THEN {NoTable}
                 ELSE ExistingTables \cup {NoTable}
  /\ advisor \in {"off", "error", "noContent", "badJson", "answer"}
  /\ advised \in IF insertMode = "auto-tables" \/ advisor # "answer" THEN {<<>>}
                 ELSE AdvisedMappings
  /\ runLog = <<>>

\* the entry of runLog: the rows of the table, whether the migration of the
\* collection threw, the mappings it used, and what it added to
\* result.migratedCollections and result.totalDocuments
LogEntry(outcome, mappings, completed) ==
  [rows |-> Len(outcome.table.rows), threw |-> outcome.threw,
   mappings |-> mappings, migrated |-> completed,
   counted |-> IF completed THEN Len(sourceDocs) ELSE 0]

\* migrateCollection: create the table, insert every batch, then push the
\* collection and add its count; suggestDataTransformation returns null in
\* every case, so the documents are inserted as they were read
MigrateCollection ==
  /\ insertMode = "auto-tables"
  /\ Len(runLog) < 2
  /\ LET created == createTableFromSchema(pgTable, AnalyzeSample(sourceDocs, <<>>))
         outcome == IF created.threw THEN created
                    ELSE insertDocuments(created.table, sourceDocs)
     IN /\ pgTable' = outcome.table
        /\ runLog' = Append(runLog, LogEntry(outcome, <<>>, ~outcome.threw))
  /\ UNCHANGED <<insertMode, sourceDocs, advisor, advised, notInsert>>

\* one iteration of migrateWithExistingTables: skip when the table is
\* missing or the collection is empty, else migrateCollectionToExistingTable:
\* the advised mappings, or the basic ones when there are none; insert every
\* batch, then push the collection and add its count
MigrateCollectionToExistingTable ==
  /\ insertMode = "pre-existing"
  /\ Len(runLog) < 2
  /\ LET skipped == ~pgTable.exists \/ sourceDocs = <<>>
         columnMappings ==
           ChooseMappings(suggestColumnMapping(advisor, advised),
                          createBasicColumnMappings(
                            AnalyzeSample(sourceDocs, <<>>), getTableSchema(pgTable)))
         outcome ==
           IF skipped THEN Outcome(pgTable, FALSE)
           ELSE insertDocumentsWithMapping(pgTable, sourceDocs, columnMappings)
     IN /\ pgTable' = outcome.table
        /\ runLog' = Append(runLog,
                            LogEntry(outcome, IF skipped THEN <<>> ELSE columnMappings,
                                     ~skipped /\ ~outcome.threw))
  /\ UNCHANGED <<insertMode, sourceDocs, advisor, advised, notInsert>>

(***************************************************************************)
(* MigrationEngine.migrate                                                 *)
(***************************************************************************)
Stores == {"mongo", "postgres"}
NoName == "-"

\* config.batchSize || 1000  (batchSize 0 stands for an unset batch size)
DefaultBatchSize == 1000
BatchSizeOf(cfg) == IF cfg.batchSize = 0 THEN DefaultBatchSize ELSE cfg.batchSize

Min(x, y) == IF x < y THEN x ELSE y

NewResult ==
  [success |-> FALSE, migratedCollections |-> <<>>, errors |-> <<>>,
   totalDocuments |-> 0]

NoCollection ==
  [name |-> NoName, totalDocs |-> 0, skip |-> 0, migratedCount |-> 0,
   reads |-> <<>>]

NoneRead == [t \in TableNames |-> 0]

\* result.errors.push(errorMessage): the message is kept as its origin
\* ("fatal", "analyze", "migrate") and the collection it names
RecordError(res, origin, c) ==
  [res EXCEPT !.errors = Append(@, [origin |-> origin, collection |-> c])]

\* result.success = result.errors.length === 0
CompleteAlways(res) == [res EXCEPT !.success = TRUE]
Complete(res) == [res EXCEPT !.success = (Len(res.errors) = 0)]

\* result.migratedCollections.push(name); result.totalDocuments += migratedCount
CompleteUncounted(res, name, migratedCount) ==
  [res EXCEPT !.migratedCollections = Append(@, name)]
CompleteCollection(res, name, migratedCount) ==
  [res EXCEPT !.migratedCollections = Append(@, name),
              !.totalDocuments = @ + migratedCount]

\* the for-of loops go on with the next collection after a caught failure
AbortLoop(i, ord) == Len(ord) + 1
AfterFailure(i, ord) == i + 1

\* what the schema script step of migrate can do: executeDDLScript in
\* auto-tables mode, parseDDLForRelationships alone in pre-existing mode
DDLRelationshipLists == SeqsUpTo(TableRelationship, MaxDDLRels)

ParseOutcomes ==
  {[executed |-> FALSE, throws |-> FALSE, parsed |-> FALSE, rels |-> <<>>]}
    \cup {[executed |-> FALSE, throws |-> FALSE, parsed |-> TRUE, rels |-> r] :
            r \in DDLRelationshipLists}

\* if (config.mode === 'auto-tables') await this.executeDDLScript(...)
ExecutesScriptAlways(cfg) == TRUE
ExecutesScript(cfg) == cfg.mode = "auto-tables"

DDLOutcomes(cfg) ==
  IF ~cfg.postgresDDL
  THEN {[executed |-> FALSE, throws |-> FALSE, parsed |-> FALSE, rels |-> <<>>]}
  ELSE IF ExecutesScript(cfg)
  THEN {[executed |-> FALSE, throws |-> TRUE, parsed |-> FALSE, rels |-> <<>>],
        [executed |-> TRUE, throws |-> TRUE, parsed |-> FALSE, rels |-> <<>>]}
         \cup {[o EXCEPT !.executed = TRUE] : o \in ParseOutcomes}
  ELSE ParseOutcomes

MigrateIdle ==
  /\ mpc = "idle"
  /\ config = [mode |-> "auto-tables", postgresDDL |-> FALSE, batchSize |-> 0]
  /\ mongoClient = "null" /\ pgClient = "null"
  /\ opened = {} /\ closeCalled = {}
  /\ ddlExecuted = FALSE
  /\ tableRelationships = <<>>
  /\ result = NewResult
  /\ collections = <<>> /\ listed = FALSE /\ schemas = <<>>
  /\ migrationOrder = <<>> /\ idx = 0 /\ cur = NoCollection
  /\ attempted = <<>> /\ failed = {} /\ tablesCreated = <<>>
  /\ warned = {} /\ docsRead = NoneRead

OrderIdle ==
  /\ tables = <<>> /\ relationships = <<>> /\ kahnResult = <<>>
  /\ cycleReported = FALSE /\ order = <<>> /\ opc = "idle"

\* a fresh MigrationEngine on which migrate(config) has just been called
InitMigrate ==
  /\ config \in [mode : Modes, postgresDDL : BOOLEAN, batchSize : 0..MaxBatch]
  /\ mpc = "connectMongo"
  /\ mongoClient = "null" /\ pgClient = "null"
  /\ opened = {} /\ closeCalled = {}
  /\ ddlExecuted = FALSE
  /\ tableRelationships = <<>>
  /\ result = NewResult
  /\ collections = <<>> /\ listed = FALSE /\ schemas = <<>>
  /\ migrationOrder = <<>> /\ idx = 0 /\ cur = NoCollection
  /\ attempted = <<>> /\ failed = {} /\ tablesCreated = <<>>
  /\ warned = {} /\ docsRead = NoneRead
  /\ OrderIdle /\ SanitizeIdle /\ AnalyzeIdle /\ InsertIdle /\ InferIdle
  /\ MappingIdle /\ ParseIdle

\* await this.mongoAnalyzer.connect(config.mongoUrl)
ConnectMongo ==
  /\ mpc = "connectMongo"
  /\ \E outcome \in {"ok", "constructorThrows", "connectFails", "urlThrows"} :
       /\ mongoClient' = IF outcome = "constructorThrows" THEN mongoClient ELSE "client"
       /\ opened' = IF outcome \in {"ok", "urlThrows"}
                    THEN opened \cup {"mongo"} ELSE opened
       /\ result' = IF outcome = "ok" THEN result
                    ELSE RecordError(result, "fatal", NoName)
       /\ mpc' = IF outcome = "ok" THEN "connectPostgres" ELSE "disconnectMongo"
  /\ UNCHANGED <<config, pgClient, closeCalled, ddlExecuted, tableRelationships,
                 loopVars, notMigrate>>

\* await this.postgresManager.connect(config.postgresUrl)
ConnectPostgres ==
  /\ mpc = "connectPostgres"
  /\ \E outcome \in {"ok", "connectFails"} :
       /\ pgClient' = "client"
       /\ opened' = IF outcome = "ok" THEN opened \cup {"postgres"} ELSE opened
       /\ result' = IF outcome = "ok" THEN result
                    ELSE RecordError(result, "fatal", NoName)
       /\ mpc' = IF outcome = "ok" THEN "ddl" ELSE "disconnectMongo"
  /\ UNCHANGED <<config, mongoClient, closeCalled, ddlExecuted, tableRelationships,
                 loopVars, notMigrate>>

\* if (config.postgresDDL) { executeDDLScript | parseDDLForRelationships }
HandleDDL ==
  /\ mpc = "ddl"
  /\ \E o \in DDLOutcomes(config) :
       /\ ddlExecuted' = (ddlExecuted \/ o.executed)
       /\ tableRelationships' = IF o.parsed THEN o.rels ELSE tableRelationships
       /\ result' = IF o.throws THEN RecordError(result, "fatal", NoName) ELSE result
       /\ mpc' = IF o.throws THEN "disconnectMongo" ELSE "list"
  /\ UNCHANGED <<config, connVars, loopVars, notMigrate>>

\* const collections = await this.mongoAnalyzer.getCollections()
GetCollections ==
  /\ mpc = "list"
  /\ \E outcome \in {"ok", "throws"} :
       IF outcome = "ok"
       THEN /\ collections' \in TableLists
            /\ listed' = TRUE
            /\ idx' = 1
            /\ mpc' = IF config.mode = "auto-tables" /\ collections' # <<>>
                      THEN "analyze" ELSE "order"
            /\ UNCHANGED result
       ELSE /\ result' = RecordError(result, "fatal", NoName)
            /\ mpc' = "disconnectMongo"
            /\ UNCHANGED <<collections, listed, idx>>
  /\ UNCHANGED <<config, connVars, ddlExecuted, tableRelationships, schemas,
                 migrationOrder, cur, attempted, failed, warned, docsRead,
                 tablesCreated, notMigrate>>

\* migrateWithAutoTables, first loop: analyzeCollection of one collection
AnalyzeCollection ==
  /\ mpc = "analyze"
  /\ idx <= Len(collections)
  /\ \E outcome \in {"ok", "throws"} :
       IF outcome = "ok"
       THEN /\ schemas' = Append(schemas, collections[idx])
            /\ idx' = idx + 1
            /\ UNCHANGED <<result, failed>>
       ELSE /\ result' = RecordError(result, "analyze", collections[idx])
            /\ failed' = failed \cup {collections[idx]}
            /\ idx' = AfterFailure(idx, collections)
            /\ UNCHANGED schemas
  /\ mpc' = IF idx' > Len(collections) THEN "order" ELSE "analyze"
  /\ UNCHANGED <<config, connVars, ddlExecuted, tableRelationships, collections,
                 listed, migrationOrder, cur, attempted, warned, docsRead,
                 tablesCreated, notMigrate>>

\* const migrationOrder = this.ddlParser.getInsertionOrder(names, tableRelationships)
ResolveOrder ==
  /\ mpc = "order"
  /\ migrationOrder' =
       GetInsertionOrderOf(IF config.mode = "auto-tables" THEN schemas ELSE collections,
                           tableRelationships)
  /\ idx' = 1
  /\ mpc' = "collection"
  /\ UNCHANGED <<config, connVars, ddlExecuted, tableRelationships, result,
                 collections, listed, schemas, cur, attempted, failed, warned,
                 docsRead, tablesCreated, notMigrate>>

\* the locals of migrateCollection(ToExistingTable) when its loop starts
StartCopy(name, totalDocs) ==
  [name |-> name, totalDocs |-> totalDocs, skip |-> 0, migratedCount |-> 0,
   reads |-> <<>>]

\* one iteration of the second loop of migrateWithAutoTables, up to the
\* first batch: migrateCollection creates the table and counts the documents
StartCollectionAuto ==
  /\ mpc = "collection"
  /\ config.mode = "auto-tables"
  /\ idx <= Len(migrationOrder)
  /\ attempted' = Append(attempted, migrationOrder[idx])
  /\ tablesCreated' = Append(tablesCreated, migrationOrder[idx])
  /\ \E outcome \in {"ok", "throws"}, totalDocs \in 0..MaxTotal :
       IF outcome = "throws"
       THEN /\ totalDocs = 0
            /\ result' = RecordError(result, "migrate", migrationOrder[idx])
            /\ failed' = failed \cup {migrationOrder[idx]}
            /\ idx' = AfterFailure(idx, migrationOrder)
            /\ UNCHANGED <<cur, mpc>>
       ELSE IF totalDocs = 0
       THEN /\ result' = CompleteCollection(result, migrationOrder[idx], 0)
            /\ idx' = idx + 1
            /\ UNCHANGED <<cur, mpc, failed>>
       ELSE /\ cur' = StartCopy(migrationOrder[idx], totalDocs)
            /\ mpc' = "batch"
            /\ UNCHANGED <<result, idx, failed>>
  /\ UNCHANGED <<config, connVars, ddlExecuted, tableRelationships, collections,
                 listed, schemas, migrationOrder, warned, docsRead, notMigrate>>

\* the sample document of a collection holding `size` documents: null when
\* the collection is empty
getSingleDocument(size) == IF size = 0 THEN "null" ELSE "document"

\* the skip warnings of migrateWithExistingTables, each followed by continue
SkipReason(tableExists, pgSchema, sample) ==
  IF ~tableExists THEN "noTable"
  ELSE IF pgSchema = "null" THEN "noSchema"
  ELSE IF sample = "null" THEN "empty"
  ELSE "none"

\* this.logger.warn(...); continue;  the result accumulator is not touched
SkipAsFailure(res, name) == RecordError(res, "migrate", name)
SkipCollection(res, name) == res

\* one iteration of the loop of migrateWithExistingTables, up to the first
\* batch: tableExists, analyzeCollection, getTableSchema, getSingleDocument,
\* then migrateCollectionToExistingTable resolves the mapping and counts
StartCollectionExisting ==
  /\ mpc = "collection"
  /\ config.mode = "pre-existing"
  /\ idx <= Len(migrationOrder)
  /\ attempted' = Append(attempted, migrationOrder[idx])
  /\ \E throws \in BOOLEAN, tableExists \in BOOLEAN, pgSchema \in {"null", "schema"},
        size \in {0, 1}, totalDocs \in 0..MaxTotal :
       LET name == migrationOrder[idx]
           reason == SkipReason(tableExists, pgSchema, getSingleDocument(size))
       IN IF throws
          THEN /\ tableExists /\ pgSchema = "schema" /\ size = 1 /\ totalDocs = 0
               /\ result' = RecordError(result, "migrate", name)
               /\ failed' = failed \cup {name}
               /\ idx' = AfterFailure(idx, migrationOrder)
               /\ UNCHANGED <<cur, mpc, warned>>
          ELSE IF reason # "none"
          THEN /\ totalDocs = 0
               /\ reason = "noTable" => pgSchema = "null"
               /\ reason # "empty" => size = 1
               /\ warned' = warned \cup {<<name, reason>>}
               /\ result' = SkipCollection(result, name)
               /\ idx' = idx + 1
               /\ UNCHANGED <<cur, mpc, failed>>
          ELSE IF totalDocs = 0
          THEN /\ result' = CompleteCollection(result, name, 0)
               /\ idx' = idx + 1
               /\ UNCHANGED <<cur, mpc, failed, warned>>
          ELSE /\ cur' = StartCopy(name, totalDocs)
               /\ mpc' = "batch"
               /\ UNCHANGED <<result, idx, failed, warned>>
  /\ UNCHANGED <<config, connVars, ddlExecuted, tableRelationships, collections,
                 listed, schemas, migrationOrder, docsRead, tablesCreated,
                 notMigrate>>

\* one iteration of for (skip = 0; skip < totalDocs; skip += batchSize):
\* getDocuments, then insertDocuments / insertDocumentsWithMapping; the
\* statements after the loop run with the iteration that ends it
CopyBatch ==
  /\ mpc = "batch"
  /\ cur.skip < cur.totalDocs
  /\ \E outcome \in {"ok", "readThrows", "insertThrows"},
        n \in 0..Min(BatchSizeOf(config), cur.totalDocs - cur.skip) :
       /\ outcome = "readThrows" => n = 0
       /\ docsRead' = [docsRead EXCEPT ![cur.name] = @ + n]
       /\ IF outcome = "readThrows" \/ (outcome = "insertThrows" /\ n > 0)
          THEN /\ result' = RecordError(result, "migrate", cur.name)
               /\ failed' = failed \cup {cur.name}
               /\ idx' = AfterFailure(idx, migrationOrder)
               /\ cur' = NoCollection
               /\ mpc' = "collection"
          ELSE IF n = 0 \/ cur.skip + BatchSizeOf(config) >= cur.totalDocs
          THEN /\ result' = CompleteCollection(result, cur.name, cur.migratedCount + n)
               /\ idx' = idx + 1
               /\ cur' = NoCollection
               /\ mpc' = "collection"
               /\ UNCHANGED failed
          ELSE /\ cur' = [cur EXCEPT !.skip = @ + BatchSizeOf(config),
                                     !.migratedCount = @ + n,
                                     !.reads = Append(@, [skip |-> cur.skip,
                                                          length |-> n])]
               /\ UNCHANGED <<result, idx, mpc, failed>>
  /\ UNCHANGED <<config, connVars, ddlExecuted, tableRelationships, collections,
                 listed, schemas, migrationOrder, attempted, warned,
                 tablesCreated, notMigrate>>

\* after the mode's loop: result.success = result.errors.length === 0
FinishRun ==
  /\ mpc = "collection"
  /\ idx > Len(migrationOrder)
  /\ result' = Complete(result)
  /\ mpc' = "disconnectMongo"
  /\ UNCHANGED <<config, connVars, ddlExecuted, tableRelationships, loopVars,
                 notMigrate>>

\* finally: await this.mongoAnalyzer.disconnect()
DisconnectMongo ==
  /\ mpc = "disconnectMongo"
  /\ IF mongoClient = "null"
     THEN /\ mpc' = "disconnectPostgres"
          /\ UNCHANGED closeCalled
     ELSE /\ closeCalled' = closeCalled \cup {"mongo"}
          /\ \E outcome \in {"ok", "throws"} :
               mpc' = IF outcome = "ok" THEN "disconnectPostgres" ELSE "rejected"
  /\ UNCHANGED <<config, mongoClient, pgClient, opened, ddlExecuted,
                 tableRelationships, result, loopVars, notMigrate>>

\* finally: await this.postgresManager.disconnect(); then return result
DisconnectPostgres ==
  /\ mpc = "disconnectPostgres"
  /\ IF pgClient = "null"
     THEN /\ mpc' = "returned"
          /\ UNCHANGED closeCalled
     ELSE /\ closeCalled' = closeCalled \cup {"postgres"}
          /\ \E outcome \in {"ok", "throws"} :
               mpc' = IF outcome = "ok" THEN "returned" ELSE "rejected"
  /\ UNCHANGED <<config, mongoClient, pgClient, opened, ddlExecuted,
                 tableRelationships, result, loopVars, notMigrate>>

NextMigrate ==
  \/ ConnectMongo
  \/ ConnectPostgres
  \/ HandleDDL
  \/ GetCollections
  \/ AnalyzeCollection
  \/ ResolveOrder
  \/ StartCollectionAuto
  \/ StartCollectionExisting
  \/ CopyBatch
  \/ FinishRun
  \/ DisconnectMongo
  \/ DisconnectPostgres

SpecMigrate == InitMigrate /\ [][NextMigrate]_vars

\* what an earlier migrate call of the same MigrationEngine left in
\* this.tableRelationships when it parsed its schema script
EarlierRelationships ==
  {<<[tableName |-> "a", referencedTable |-> "b"]>>,
   <<[tableName |-> "b", referencedTable |-> "a"]>>}

\* migrate(config) is called on a MigrationEngine whose earlier migrate call
\* connected both stores and parsed a schema script: the clients and
\* tableRelationships are fields of the instance, everything else is local
\* to the call
InitMigrateAgain ==
  /\ config \in [mode : Modes, postgresDDL : BOOLEAN, batchSize : 0..MaxBatch]
  /\ mpc = "connectMongo"
  /\ mongoClient = "client" /\ pgClient = "client"
  /\ opened = {} /\ closeCalled = {}
  /\ ddlExecuted = FALSE
  /\ tableRelationships \in EarlierRelationships
  /\ result = NewResult
  /\ collections = <<>> /\ listed = FALSE /\ schemas = <<>>
  /\ migrationOrder = <<>> /\ idx = 0 /\ cur = NoCollection
  /\ attempted = <<>> /\ failed = {} /\ tablesCreated = <<>>
  /\ warned = {} /\ docsRead = NoneRead
  /\ OrderIdle /\ SanitizeIdle /\ AnalyzeIdle /\ InsertIdle /\ InferIdle
  /\ MappingIdle /\ ParseIdle

SpecMigrateAgain == InitMigrateAgain /\ [][NextMigrate]_vars

(***************************************************************************)
(* Specifications of the other components.                                 *)
(***************************************************************************)
InitOrder ==
  /\ InitOrderInputs /\ MigrateIdle /\ SanitizeIdle /\ AnalyzeIdle
  /\ InsertIdle /\ InferIdle /\ MappingIdle /\ ParseIdle

SpecOrder == InitOrder /\ [][GetInsertionOrder]_vars

InitSanitize ==
  /\ InitSanitizeInputs /\ OrderIdle /\ MigrateIdle /\ AnalyzeIdle
  /\ InsertIdle /\ InferIdle /\ MappingIdle /\ ParseIdle

SpecSanitize == InitSanitize /\ [][Sanitize]_vars

InitAnalyze ==
  /\ InitAnalyzeLocals /\ OrderIdle /\ MigrateIdle /\ SanitizeIdle
  /\ InsertIdle /\ InferIdle /\ MappingIdle /\ ParseIdle

NextAnalyze == AnalyzeDocument \/ ReturnSchema

SpecAnalyze == InitAnalyze /\ [][NextAnalyze]_vars

InitInsert ==
  /\ InitInsertInputs /\ OrderIdle /\ MigrateIdle /\ SanitizeIdle
  /\ AnalyzeIdle /\ InferIdle /\ MappingIdle /\ ParseIdle

NextInsert == MigrateCollection \/ MigrateCollectionToExistingTable

SpecInsert == InitInsert /\ [][NextInsert]_vars

\* the values inferTypeFromValue is called on, one of every kind of value
InitInfer ==
  /\ iValues \in SeqsUpTo({Scalar(k) : k \in {"null", "undefined", "string", "number",
                                               "boolean", "date", "symbol",
                                               "binary"}}
                             \cup {Array(<<>>), Object(<<>>), ObjectId("h1")},
                           MaxValues)
  /\ iTags = <<>>
  /\ OrderIdle /\ MigrateIdle /\ SanitizeIdle /\ AnalyzeIdle /\ InsertIdle
  /\ MappingIdle /\ ParseIdle

SpecInfer == InitInfer /\ [][Infer]_vars

InitMapping ==
  /\ InitMappingInputs /\ OrderIdle /\ MigrateIdle /\ SanitizeIdle
  /\ AnalyzeIdle /\ InsertIdle /\ InferIdle /\ ParseIdle

SpecMapping == InitMapping /\ [][ResolveMapping]_vars

InitParse ==
  /\ InitParseInputs /\ OrderIdle /\ MigrateIdle /\ SanitizeIdle
  /\ AnalyzeIdle /\ InsertIdle /\ InferIdle /\ MappingIdle

SpecParse == InitParse /\ [][ParseRelationships]_vars

(***************************************************************************)
(* Properties of getInsertionOrder.                                        *)
(***************************************************************************)
Count(s, x) == Cardinality({i \in 1..Len(s) : s[i] = x})

InTables(rel) == Includes(tables, rel.tableName) /\ Includes(tables, rel.referencedTable)

\* the dependency edges (referencedTable -> tableName) between listed tables
FilteredEdges ==
  {<<relationships[i].referencedTable, relationships[i].tableName>> :
     i \in {j \in 1..Len(relationships) : InTables(relationships[j])}}

RECURSIVE PathWithin(_, _, _, _)
PathWithin(E, u, v, k) ==
  /\ k > 0
  /\ \/ <<u, v>> \in E
     \/ \E w \in TableNames : <<u, w>> \in E /\ PathWithin(E, w, v, k - 1)

Acyclic == \A t \in TableNames : ~PathWithin(FilteredEdges, t, t, Cardinality(TableNames))

NoRepeatedEdge ==
  \A i, j \in 1..Len(relationships) :
    i # j => \/ relationships[i].tableName # relationships[j].tableName
             \/ relationships[i].referencedTable # relationships[j].referencedTable

DependenciesFirst ==
  \A i \in 1..Len(relationships) :
    InTables(relationships[i]) =>
      IndexOf(order, relationships[i].referencedTable)
        < IndexOf(order, relationships[i].tableName)

\* the relationship list with every repeat of an earlier edge removed
RECURSIVE RemoveRepeats(_, _)
RemoveRepeats(rels, seen) ==
  IF rels = <<>> THEN <<>>
  ELSE IF Head(rels) \in seen
       THEN RemoveRepeats(Tail(rels), seen)
       ELSE <<Head(rels)>> \o RemoveRepeats(Tail(rels), seen \cup {Head(rels)})

\* C1: the returned order is a permutation of the input table list: same
\* length, every input name exactly once, no other name; with cycles,
\* self-references and references to unlisted tables alike.
C1_OrderIsPermutation ==
  opc = "done" =>
    /\ Len(order) = Len(tables)
    /\ \A t \in TableNames : Count(order, t) = Count(tables, t)

C1_Witness ==
  /\ opc = "done"
  /\ Len(tables) = 2
  /\ cycleReported
  /\ \E i \in 1..Len(relationships) : ~InTables(relationships[i])
  /\ \E i \in 1..Len(relationships) :
       relationships[i].tableName = relationships[i].referencedTable

\* C2: with no repeated edge and an acyclic graph over the listed tables,
\* every referenced table comes before the table that references it.
C2_DependenciesFirst ==
  (opc = "done" /\ NoRepeatedEdge /\ Acyclic) => DependenciesFirst

C2_Witness ==
  /\ opc = "done"
  /\ NoRepeatedEdge /\ Acyclic
  /\ Len(tables) = 3
  /\ Cardinality(FilteredEdges) = 3
  /\ order # tables

\* C3: repeated edges change nothing: for an acyclic relationship list the
\* order equals the order of the list without repeats, every dependency
\* precedes its dependent, and no cycle is reported.
C3_RepeatedEdgesHarmless ==
  (opc = "done" /\ Acyclic) =>
    /\ order = GetInsertionOrderOf(tables, RemoveRepeats(relationships, {}))
    /\ DependenciesFirst
    /\ ~cycleReported

\* C4: when Kahn's phase ends short of the input, the call still returns,
\* and the result is the Kahn-resolved tables followed by the unresolved
\* ones in their input order.
C4_CycleFallback ==
  (opc = "done" /\ Len(kahnResult) < Len(tables)) =>
    /\ Len(order) = Len(tables)
    /\ SubSeq(order, 1, Len(kahnResult)) = kahnResult
    /\ \A t \in SeqToSet(tables) :
         ~Includes(kahnResult, t) => IndexOf(order, t) > Len(kahnResult)
    /\ \A i, j \in (Len(kahnResult) + 1)..Len(order) :
         i < j => IndexOf(tables, order[i]) < IndexOf(tables, order[j])

C4_Witness ==
  /\ opc = "done"
  /\ Len(tables) = 3
  /\ Len(kahnResult) = 1
  /\ Len(order) = 3
  /\ \E i, j \in 1..Len(relationships) :
       /\ relationships[i].tableName # relationships[i].referencedTable
       /\ relationships[j].tableName = relationships[i].referencedTable
       /\ relationships[j].referencedTable = relationships[i].tableName

\* the tables ready once the first k tables of Kahn's phase are emitted:
\* not emitted, every listed table they reference emitted
ReadyAfter(k) ==
  LET emitted == SeqToSet(SubSeq(kahnResult, 1, k))
  IN {t \in SeqToSet(tables) \ emitted :
        \A e \in FilteredEdges : e[2] = t => e[1] \in emitted}

\* C18: with no repeated edge, every table emitted by Kahn's phase is, among
\* the tables ready at that moment, the one that comes first in the input
\* table list.
C18_TieBrokenByInputOrder ==
  (opc = "done" /\ NoRepeatedEdge) =>
    \A k \in 1..Len(kahnResult) :
      \A t \in ReadyAfter(k - 1) :
        IndexOf(tables, kahnResult[k]) <= IndexOf(tables, t)

\* C19: relationships with an endpoint outside the table list have no
\* effect: the returned order is the order computed from the relationships
\* whose two endpoints are listed.
C19_UnlistedEndpointsIgnored ==
  opc = "done" =>
    order = GetInsertionOrderOf(tables, SelectSeq(relationships, InTables))

C19_Witness ==
  /\ opc = "done"
  /\ Len(tables) = 2
  /\ order # tables
  /\ \E i \in 1..Len(relationships) : InTables(relationships[i])
  /\ \E i \in 1..Len(relationships) :
       /\ Includes(tables, relationships[i].tableName)
       /\ ~Includes(tables, relationships[i].referencedTable)
  /\ \E i \in 1..Len(relationships) :
       /\ ~Includes(tables, relationships[i].tableName)
       /\ Includes(tables, relationships[i].referencedTable)

(***************************************************************************)
(* Properties of migrate.                                                  *)
(***************************************************************************)
RunEnded == mpc \in {"returned", "rejected"}

\* the try block has been left: the finally block runs or migrate has ended
TryLeft == mpc \in {"disconnectMongo", "disconnectPostgres", "returned", "rejected"}

ErrorsNaming(c) ==
  Cardinality({i \in 1..Len(result.errors) : result.errors[i].collection = c})

\* C5: every result object migrate returns has success = TRUE exactly when
\* errors is empty, on the normal path and on every failure path.
C5_SuccessIffNoErrors ==
  mpc = "returned" => (result.success <=> result.errors = <<>>)

C5_Witness ==
  /\ mpc = "returned"
  /\ ~result.success
  /\ \E i \in 1..Len(result.errors) : result.errors[i].origin = "migrate"
  /\ Len(result.migratedCollections) = 1
  /\ result.totalDocuments = 2

\* C6: once the collections are listed, every collection of the resolved
\* order is attempted exactly once, in order, whatever fails for the others,
\* and a collection has one entry in errors if it failed and none otherwise.
C6_EveryCollectionAttemptedOnce ==
  (listed /\ TryLeft) =>
    /\ attempted = migrationOrder
    /\ \A c \in TableNames : ErrorsNaming(c) = IF c \in failed THEN 1 ELSE 0
    /\ ErrorsNaming(NoName) = 0

C6_Witness ==
  /\ mpc = "returned"
  /\ listed
  /\ Len(migrationOrder) = 3
  /\ migrationOrder[1] \in failed
  /\ migrationOrder[2] \in failed
  /\ Includes(result.migratedCollections, migrationOrder[3])

\* C7: when migrate ends, on every exit path, every store whose connection
\* was opened during the run has had its disconnect invoked.
C7_OpenedConnectionsClosed ==
  RunEnded => opened \subseteq closeCalled

\* C13: in a run with mode 'pre-existing' the destination schema is never
\* changed: executeDDL and createTableFromSchema are never invoked, with or
\* without a schema script; a supplied script is only parsed.
C13_PreExistingNeverChangesSchema ==
  config.mode = "pre-existing" => ~ddlExecuted /\ tablesCreated = <<>>

C13_Witness ==
  /\ mpc = "returned"
  /\ config.mode = "pre-existing" /\ config.postgresDDL
  /\ tableRelationships # <<>>
  /\ Len(result.migratedCollections) = 2
  /\ result.totalDocuments > 0

(***************************************************************************)
(* Properties of sanitizeIdentifier.                                       *)
(***************************************************************************)
LeadingDigit(str) == str # <<>> /\ str[1] \in Digits

\* C10: sanitizeIdentifier is idempotent, and its output is the input with
\* every character outside [a-zA-Z0-9_] turned into "_", letters lowercased
\* and a "_" put in front of a leading digit.
C10_SanitizeIdempotent ==
  /\ Len(sOutputs) >= 1 =>
       LET out == sOutputs[1]
           off == IF LeadingDigit(sInput) THEN 1 ELSE 0
       IN /\ Len(out) = Len(sInput) + off
          /\ off = 1 => out[1] = "_"
          /\ \A i \in 1..Len(sInput) :
               out[i + off] =
                 IF Includes(UpperLetters, sInput[i])
                 THEN LowerLetters[IndexOf(UpperLetters, sInput[i])]
                 ELSE IF Includes(LowerLetters, sInput[i]) \/ sInput[i] \in Digits
                         \/ sInput[i] = "_"
                 THEN sInput[i]
                 ELSE "_"
  /\ Len(sOutputs) = 2 => sOutputs[2] = sOutputs[1]

C10_Witness ==
  /\ Len(sOutputs) = 2
  /\ sInput = <<"1", "B", "-", "a">>
  /\ sOutputs[2] = <<"_", "1", "b", "_", "a">>

(***************************************************************************)
(* Properties of analyzeCollection.                                        *)
(***************************************************************************)
TypeOf(map, name) == map[FieldIndex(map, name)].type

\* C9: while a collection is analyzed, the type recorded for a field path
\* changes only from 'null' to a concrete type (hence at most once): a field
\* that holds a non-null type keeps it whatever is observed later.
C9_TypeOnlyPromotedFromNull ==
  [][\A i \in 1..Len(fieldMap) :
       /\ HasField(fieldMap', fieldMap[i].name)
       /\ \/ TypeOf(fieldMap', fieldMap[i].name) = fieldMap[i].type
          \/ /\ fieldMap[i].type = "null"
             /\ TypeOf(fieldMap', fieldMap[i].name) # "null"]_vars

\* a field first seen as null was promoted, and later observations of it
\* (null, and another concrete type) have been analyzed
C9_Witness ==
  /\ apc = "done"
  /\ Len(fieldMap) = 4
  /\ \A i \in 1..Len(fieldMap) : fieldMap[i].name \in promoted
  /\ HasField(fieldMap, <<"a", ".", "x">>)
  /\ TypeOf(fieldMap, <<"a">>) = "array"
  /\ TypeOf(fieldMap, <<"b">>) = "string"

(***************************************************************************)
(* Properties of repeated migration.                                       *)
(***************************************************************************)
\* the destination table has a unique or primary-key column
HasKeyColumn ==
  \E i \in 1..Len(pgTable.columns) :
    pgTable.columns[i].primaryKey \/ pgTable.columns[i].unique

\* C8: migrating the same unchanged collection a second time into the same
\* table leaves the row count of the first migration, in auto-tables mode
\* and, for a table with a unique or primary-key column, in mapped mode; the
\* second migration raises no error that the first one did not raise.
C8_RerunKeepsRowCount ==
  (Len(runLog) = 2 /\ HasKeyColumn) =>
    /\ runLog[2].rows = runLog[1].rows
    /\ runLog[1].threw \/ ~runLog[2].threw

\* C16: in existing-tables mode, a collection none of whose mappings targets
\* a column of the destination table is skipped: no row is inserted, it is
\* not added to migratedCollections, nothing is added to totalDocuments.
C16_NoUsableMappingSkips ==
  \A r \in 1..Len(runLog) :
    (/\ insertMode = "pre-existing" /\ pgTable.exists /\ sourceDocs # <<>>
     /\ \A i \in 1..Len(runLog[r].mappings) :
          \A c \in 1..Len(pgTable.columns) :
            pgTable.columns[c].name # runLog[r].mappings[i].postgresColumn)
    => /\ runLog[r].rows = 0
       /\ ~runLog[r].migrated
       /\ runLog[r].counted = 0

(***************************************************************************)
(* Properties of inferTypeFromValue.                                       *)
(***************************************************************************)
\* the rule table: the one tag of every kind of value
RuleTag(value) ==
  CASE value.kind \in {"null", "undefined"} -> "null"
    [] value.kind \in {"string", "number", "boolean", "date", "array",
                       "objectId", "object", "binary"} -> value.kind
    [] OTHER -> "string"

\* C17: inferTypeFromValue returns, for every value, the tag the rule table
\* gives for its kind; a binary payload is tagged binary.
C17_InferFollowsRuleTable ==
  \A i \in 1..Len(iTags) : iTags[i] = RuleTag(iValues[i])

(***************************************************************************)
(* Properties of the mapping resolution.                                   *)
(***************************************************************************)
\* C11: the resolved mapping is empty only when both the source field list
\* and the destination column list are empty.
C11_MappingEmptyOnlyForEmptyInputs ==
  (resolved # <<>> /\ resolved[1] = <<>>) =>
    AnalyzeSample(<<sampleDoc>>, <<>>) = <<>> /\ pgColumns = <<>>

\* C12: for the schema derived from {_id: 24-hex string, profile: {age: 30}}
\* and the columns [user_id (unique), profile_age], the fallback mapping is
\* exactly _id -> user_id, profile.age -> profile_age.
C12_ProfileAgeScenario ==
  (/\ resolved # <<>> /\ hint = <<>>
   /\ Len(sampleDoc) = 2 /\ sampleDoc[2].key = ProfileName
   /\ pgColumns = <<ColumnSchema(UserIdName, "TEXT", FALSE, TRUE),
                    ColumnSchema(ProfileAgeName, "INTEGER", FALSE, FALSE)>>)
  => resolved[1] =
       <<[mongoField |-> UnderscoreId, postgresColumn |-> UserIdName],
         [mongoField |-> ProfileName \o <<".", "a", "g", "e">>,
          postgresColumn |-> ProfileAgeName]>>

(***************************************************************************)
(* C14: every REFERENCES clause inside a CREATE TABLE block, in either     *)
(* form and at any position of the block, the first included, yields a     *)
(* relationship with that block's table and the declaring column; a clause *)
(* with no preceding CREATE TABLE header yields none.  Stated for the      *)
(* scripts without comments.                                               *)
(***************************************************************************)
C14_EveryClauseYieldsItsRelationship ==
  (/\ parsed # <<>>
   /\ \A i \in 1..Len(ddlScript.tables) :
        \A k \in 1..Len(ddlScript.tables[i].items) :
          ddlScript.tables[i].items[k].comment = "none")
    => /\ SeqToSet(DeclaredRelationships(ddlScript)) \subseteq SeqToSet(parsed[1])
       /\ ddlScript.tables = <<>> => parsed[1] = <<>>

(***************************************************************************)
(* C15: parseRelationships ignores comments: the result on a script is the *)
(* result on the same script with its line comments and block comments     *)
(* removed, also when a block comment contains a line-comment marker.      *)
(***************************************************************************)
C15_CommentsIgnored ==
  parsed # <<>>
    => parsed[1] = parseRelationships(RenderScript(Uncommented(ddlScript)))

(***************************************************************************)
(* C20: the returned list is ordered as the constraints appear in the      *)
(* text, also when FOREIGN KEY and inline constraints are mixed: two       *)
(* different declared relationships are returned in an order in which the  *)
(* text declares them.                                                     *)
(***************************************************************************)
C20_ReturnedInSourceOrder ==
  parsed # <<>> =>
    LET declared == DeclaredRelationships(ddlScript)
    IN \A i, j \in 1..Len(parsed[1]) :
         (/\ i < j /\ parsed[1][i] # parsed[1][j]
          /\ parsed[1][i] \in SeqToSet(declared)
          /\ parsed[1][j] \in SeqToSet(declared))
           => \E a, b \in 1..Len(declared) :
                a < b /\ declared[a] = parsed[1][i] /\ declared[b] = parsed[1][j]

\* C29: the fallback mapping never maps two source fields to the same
\* destination column, so no INSERT lists a column twice.
C29_FallbackColumnsDistinct ==
  (resolved # <<>> /\ hint = <<>>) =>
    IsDistinct([i \in 1..Len(resolved[1]) |-> resolved[1][i].postgresColumn])

\* C24: when the advisor is not configured, fails, or gives an absent or
\* empty answer, the collection is migrated with the mappings of a run
\* without advisor, the fallback ones, and the migration throws only when
\* the inserts with the fallback mappings throw.
C24_AbsentAdvisorMeansFallback ==
  \A i \in 1..Len(runLog) :
    (/\ insertMode = "pre-existing" /\ pgTable.exists /\ sourceDocs # <<>>
     /\ (advisor # "answer" \/ advised = <<>>))
      => /\ runLog[i].mappings =
              createBasicColumnMappings(AnalyzeSample(sourceDocs, <<>>),
                                        getTableSchema(pgTable))
         /\ i = 1 => runLog[i].threw =
              insertDocumentsWithMapping(
                [pgTable EXCEPT !.rows = <<>>, !.nextval = 1], sourceDocs,
                runLog[i].mappings).threw

C24_Witness ==
  /\ insertMode = "pre-existing" /\ runLog # <<>>
  /\ advisor = "badJson" /\ runLog[1].mappings # <<>> /\ runLog[1].rows > 0

C27_AutoCopyIsPerField ==
  (/\ insertMode = "auto-tables" /\ Len(runLog) = 1 /\ ~runLog[1].threw
   /\ Len(pgTable.rows) = Len(sourceDocs))
    => \A d \in 1..Len(sourceDocs) :
         \A f \in 1..Len(AnalyzeSample(sourceDocs, <<>>)) :
           LET p == AnalyzeSample(sourceDocs, <<>>)[f].name
               column == sanitizeIdentifier(ReplaceAll(p, ".", "_"))
               names == [c \in 1..Len(pgTable.columns) |-> pgTable.columns[c].name]
           IN p # UnderscoreId =>
                pgTable.rows[d][IndexOf(names, column)] =
                  ToParam(getNestedValue(Object(sourceDocs[d]), SplitDots(p)))

(***************************************************************************)
(* C28: createTableFromSchema never emits two column definitions of one    *)
(* name: for a schema with distinct field paths the column names derived   *)
(* from the fields are pairwise distinct and are neither id nor mongo_id.  *)
(***************************************************************************)
C28_CreatedColumnsDistinct ==
  (insertMode = "auto-tables" /\ runLog # <<>>) =>
    LET fields == SelectSeq(AnalyzeSample(sourceDocs, <<>>),
                            LAMBDA f : f.name # UnderscoreId)
    IN IsDistinct(<<IdName, MongoIdName>> \o
                  [i \in 1..Len(fields) |->
                     sanitizeIdentifier(ReplaceAll(fields[i].name, ".", "_"))])

(***************************************************************************)
(* C21: only a failure to establish a connection, or a failure of the      *)
(* schema script step in auto-tables mode, aborts a migrate run; every     *)
(* other failure is recorded at the collection boundary and the remaining  *)
(* collections are processed.  A step that records a run-fatal error is a  *)
(* connection step or the script step of an auto-tables run.               *)
(***************************************************************************)
C21_OnlyConnectAndScriptAbort ==
  [][(/\ Len(result'.errors) = Len(result.errors) + 1
      /\ result'.errors[Len(result'.errors)].origin = "fatal")
       => \/ mpc \in {"connectMongo", "connectPostgres"}
          \/ mpc = "ddl" /\ config.mode = "auto-tables"]_vars

\* C22: with a batch size b >= 1 the copy loop of a collection reads at the
\* offsets 0, b, 2b, ... in sequence, and every read the loop goes on from
\* (cur.reads holds exactly the reads that were followed by a further read)
\* returned a full batch of b rows: no read follows one that returned fewer
\* than b rows or none.
C22_NoReadAfterShortBatch ==
  (mpc = "batch" /\ BatchSizeOf(config) >= 1) =>
    /\ cur.skip = Len(cur.reads) * BatchSizeOf(config)
    /\ \A i \in 1..Len(cur.reads) :
         /\ cur.reads[i].skip = (i - 1) * BatchSizeOf(config)
         /\ cur.reads[i].length = BatchSizeOf(config)


\* C23: in pre-existing mode a collection skipped because its table does not
\* exist or because it is empty leaves no trace in the result: no batch of
\* it is read (so no row inserted), it has no entry in errors, it is not in
\* migratedCollections, and success at the end of the run is still decided
\* by the errors alone.
ErrorNames(res) == {res.errors[i].collection : i \in 1..Len(res.errors)}

C23_SkipLeavesNoTrace ==
  /\ \A w \in warned :
       w[2] \in {"noTable", "empty"} =>
         /\ config.mode = "pre-existing"
         /\ docsRead[w[1]] = 0
         /\ cur.name # w[1]
         /\ w[1] \notin ErrorNames(result)
         /\ w[1] \notin failed
         /\ ~Includes(result.migratedCollections, w[1])
  /\ (mpc = "returned" /\ listed) => (result.success <=> result.errors = <<>>)

\* a finished run that skipped a for its missing table and b for being empty,
\* copied the three documents of c and reports success
C23_Witness ==
  /\ mpc = "returned"
  /\ <<"a", "noTable">> \in warned
  /\ <<"b", "empty">> \in warned
  /\ result.migratedCollections = <<"c">>
  /\ result.totalDocuments = 3
  /\ result.success

\* C30: in the result accumulator, and so in every returned result, a
\* collection is listed in migratedCollections at most once and only when
\* its copy loop ended without a failure (it is not in failed, has no entry
\* in errors and is not being copied), and totalDocuments is the sum of the
\* documents read for exactly the listed collections: what was read, and
\* inserted, for a collection that failed later is not counted.
RECURSIVE ReadFor(_)
ReadFor(names) ==
  IF names = <<>> THEN 0 ELSE docsRead[Head(names)] + ReadFor(Tail(names))

C30_ResultCountsCompletedOnly ==
  LET done == result.migratedCollections
  IN /\ \A i, j \in 1..Len(done) : i # j => done[i] # done[j]
     /\ \A i \in 1..Len(done) :
          /\ done[i] \notin failed
          /\ done[i] \notin ErrorNames(result)
          /\ done[i] # cur.name
     /\ result.totalDocuments = ReadFor(done)

\* a returned result: collection a failed on its second batch after its first
\* batch of two rows was inserted, collection b was copied whole
C30_Witness ==
  /\ mpc = "returned"
  /\ config.batchSize = 2
  /\ "a" \in failed /\ docsRead["a"] = 3
  /\ result.migratedCollections = <<"b">>
  /\ docsRead["b"] = 3
  /\ result.totalDocuments = 3

\* C25: a migrate call that supplies no schema script processes the
\* collections in listing order (the analyzed collections in auto-tables
\* mode), also on a MigrationEngine that ran an earlier call with a script.
C25_NoScriptKeepsListingOrder ==
  (mpc \in {"collection", "batch"} /\ ~config.postgresDDL) =>
    migrationOrder = IF config.mode = "auto-tables" THEN schemas ELSE collections

====
